---- MODULE Spec2Model ----
(***************************************************************************)
(* A model of the rover crate (src/src/lib.rs, direction.rs, vec2d.rs):    *)
(* the single-step transitions of a Rover, the fold of process_sequence,   *)
(* the breadth-first search of get_directions and the lock-step loop of    *)
(* move_all.                                                               *)
(*                                                                         *)
(* A Vec2D is a pair <<x, y>>, a Rover a record [position, direction], a   *)
(* Result<Rover, Rover> a record [ok, rover], a char a one-letter string   *)
(* and a String a sequence of chars.  Coordinates stay within a few units  *)
(* of the origin, far from the limits of i32, so + and - do not wrap.      *)
(***************************************************************************)
EXTENDS Integers, Sequences, FiniteSets

VARIABLES
    op,          \* which entry point this run exercises
    pc,          \* position inside that entry point: "loop" or "done"
    obstacles,   \* the caller's obstacle set (a set of Vec2D)
    start,       \* self of get_directions / process_sequence
    target,      \* get_directions: the target position
    q,           \* get_directions: the VecDeque of (rover, ConsList) pairs
    visited,     \* get_directions: the HashSet of expanded rovers
    directions,  \* get_directions: the returned String
    sequence,    \* process_sequence: the input string
    idx,         \* process_sequence: how many chars try_fold has taken
    acc,         \* process_sequence: the accumulator of try_fold (a Result)
    res,         \* process_sequence: the returned Result
    rovers,      \* move_all: the input slice of rovers
    commands,    \* move_all: the command slice, as far as it is known: the
                 \* chars the zip has read and, at the end, one left unread
    with_rover,  \* move_all: the occupancy set
    result       \* move_all: the output Vec

vars == <<op, pc, obstacles, start, target, q, visited, directions,
          sequence, idx, acc, res, rovers, commands, with_rover, result>>

----------------------------------------------------------------------------
(* Bounds of the model.                                                    *)

\* The arena is a strip two cells high and GridW cells wide.
GridW == 2
\* At most this many cells of the arena are obstacles.
MaxObst == 2
\* process_sequence is fed at most this many chars.
MaxSeqLen == 3
\* move_all is given at most this many commands, and at most one rover more
\* than that.
MaxRovers == 2

Cells == (0 .. GridW - 1) \X (0 .. 1)

\* The ring of cells around the arena: with it in the obstacle set the set of
\* rover states reachable from inside the arena is finite.
Wall == (((-1) .. GridW) \X ((-1) .. 2)) \ Cells

ObstacleSets == {S \in SUBSET Cells : Cardinality(S) <= MaxObst}

\* 'X' stands for every char that is not a command.
Chars == {"F", "B", "L", "R", "X"}
Cmds == {"F", "B", "L", "R"}

----------------------------------------------------------------------------
(* direction.rs and vec2d.rs                                               *)

Direction == {"North", "East", "South", "West"}

\* turn_right had its last arm led from West back to East.
Direction_turn_right_west_east(d) ==
    CASE d = "North" -> "East"
      [] d = "East"  -> "South"
      [] d = "South" -> "West"
      [] d = "West"  -> "East"

Direction_turn_right(d) ==
    CASE d = "North" -> "East"
      [] d = "East"  -> "South"
      [] d = "South" -> "West"
      [] d = "West"  -> "North"

Direction_turn_left(d) ==
    CASE d = "North" -> "West"
      [] d = "East"  -> "North"
      [] d = "South" -> "East"
      [] d = "West"  -> "South"

Vec2D_add(a, b) == <<a[1] + b[1], a[2] + b[2]>>

Vec2D_sub(a, b) == <<a[1] - b[1], a[2] - b[2]>>

----------------------------------------------------------------------------
(* lib.rs: the single-step transitions                                     *)

Rover(p, d) == [position |-> p, direction |-> d]

Rovers == {Rover(p, d) : p \in Cells, d \in Direction}

Ok(r) == [ok |-> TRUE, rover |-> r]

Err(r) == [ok |-> FALSE, rover |-> r]

\* dir_to_vec had the y axis pointed down.
dir_to_vec_y_down(dir) ==
    CASE dir = "North" -> <<0, -1>>
      [] dir = "East"  -> <<1, 0>>
      [] dir = "South" -> <<0, 1>>
      [] dir = "West"  -> <<-1, 0>>

dir_to_vec(dir) ==
    CASE dir = "North" -> <<0, 1>>
      [] dir = "East"  -> <<1, 0>>
      [] dir = "South" -> <<0, -1>>
      [] dir = "West"  -> <<-1, 0>>

\* try_move had it left out the look into the obstacles.
try_move_unchecked(self, obs, new_pos) ==
    Ok([self EXCEPT !.position = new_pos])

try_move(self, obs, new_pos) ==
    IF new_pos \in obs
        THEN Err(self)
        ELSE Ok([self EXCEPT !.position = new_pos])

forward(self, obs) ==
    try_move(self, obs, Vec2D_add(self.position, dir_to_vec(self.direction)))

\* backward had it added the vector, as forward does.
backward_adds(self, obs) ==
    try_move(self, obs, Vec2D_add(self.position, dir_to_vec(self.direction)))

backward(self, obs) ==
    try_move(self, obs, Vec2D_sub(self.position, dir_to_vec(self.direction)))

turn_right(self) == [self EXCEPT !.direction = Direction_turn_right(self.direction)]

turn_left(self) == [self EXCEPT !.direction = Direction_turn_left(self.direction)]

----------------------------------------------------------------------------
(* lib.rs: process_sequence                                                *)

\* The closure had a blocked move failed with self, as the other arm does.
fold_step_blocked_resets(self, r, c, obs) ==
    CASE c = "F" -> IF forward(r, obs).ok THEN forward(r, obs) ELSE Err(self)
      [] c = "B" -> IF backward(r, obs).ok THEN backward(r, obs) ELSE Err(self)
      [] c = "R" -> Ok(turn_right(r))
      [] c = "L" -> Ok(turn_left(r))
      [] OTHER   -> Err(self)

\* The closure had the last arm failed with the accumulator r.
fold_step_invalid_keeps(self, r, c, obs) ==
    CASE c = "F" -> forward(r, obs)
      [] c = "B" -> backward(r, obs)
      [] c = "R" -> Ok(turn_right(r))
      [] c = "L" -> Ok(turn_left(r))
      [] OTHER   -> Err(r)

\* The closure had the arms of 'R' and 'L' been exchanged.
fold_step_turns_swapped(self, r, c, obs) ==
    CASE c = "F" -> forward(r, obs)
      [] c = "B" -> backward(r, obs)
      [] c = "R" -> Ok(turn_left(r))
      [] c = "L" -> Ok(turn_right(r))
      [] OTHER   -> Err(self)

\* The closure given to try_fold: self is the rover process_sequence was
\* called on, r the accumulator, c the next char.
fold_step(self, r, c, obs) ==
    CASE c = "F" -> forward(r, obs)
      [] c = "B" -> backward(r, obs)
      [] c = "R" -> Ok(turn_right(r))
      [] c = "L" -> Ok(turn_left(r))
      [] OTHER   -> Err(self)

\* Iterator::try_fold: folds from the left and stops at the first Err.
RECURSIVE try_fold(_, _, _, _)
try_fold(self, a, s, obs) ==
    IF s = <<>> \/ ~a.ok
        THEN a
        ELSE try_fold(self, fold_step(self, a.rover, Head(s), obs), Tail(s), obs)

process_sequence(self, s, obs) == try_fold(self, Ok(self), s, obs)

----------------------------------------------------------------------------
(* lib.rs: get_directions                                                  *)

\* ConsList::append had it put the new element at the end of the list.
ConsAppend_at_tail(l, c) == l \o <<c>>

\* ConsList::append puts the new element at the head of the list.
ConsAppend(l, c) == <<c>> \o l

RECURSIVE Reverse(_)
Reverse(s) == IF s = <<>> THEN <<>> ELSE Append(Reverse(Tail(s)), Head(s))

\* The returned String had v.reverse() been left out.
PathString_unreversed(l) == l

\* l.into_iter() yields the list from its head; the Vec is then reversed.
PathString(l) == Reverse(l)

\* The pushed entries had the right turn been pushed before the left turn.
Neighbours_right_first(rover, l, obs) ==
    LET f == forward(rover, obs)
        b == backward(rover, obs)
    IN  <<  <<turn_right(rover), ConsAppend(l, "R")>>,
            <<turn_left(rover), ConsAppend(l, "L")>> >>
        \o (IF f.ok THEN << <<f.rover, ConsAppend(l, "F")>> >> ELSE <<>>)
        \o (IF b.ok THEN << <<b.rover, ConsAppend(l, "B")>> >> ELSE <<>>)

\* The entries pushed for a rover popped with list l, in push order.
Neighbours(rover, l, obs) ==
    LET f == forward(rover, obs)
        b == backward(rover, obs)
    IN  <<  <<turn_left(rover), ConsAppend(l, "L")>>,
            <<turn_right(rover), ConsAppend(l, "R")>> >>
        \o (IF f.ok THEN << <<f.rover, ConsAppend(l, "F")>> >> ELSE <<>>)
        \o (IF b.ok THEN << <<b.rover, ConsAppend(l, "B")>> >> ELSE <<>>)

\* The queue had the entries been pushed with push_front.
PushFrontAll(queue, entries) == Reverse(entries) \o queue

\* VecDeque::push_back of each entry in turn.
PushBackAll(queue, entries) == queue \o entries

\* The String returned on an empty queue had the loop's fall-through returned a command.
NotFound_nonempty == <<"L">>

\* String::new(), returned when the queue runs empty.
NotFound == <<>>

\* The goal test had it compared the x coordinates only.
AtTarget_x_only(rover, tgt) == rover.position[1] = tgt[1]

\* rover.position == target
AtTarget(rover, tgt) == rover.position = tgt

NoRover == Rover(<<0, 0>>, "North")

PathInit ==
    /\ op = "get_directions"
    /\ pc = "loop"
    /\ start \in Rovers
    /\ target \in Cells
    /\ \E S \in ObstacleSets : obstacles = S \cup Wall
    /\ q = << <<start, <<>>>> >>
    /\ visited = {}
    /\ directions = <<>>
    /\ sequence = <<>>
    /\ idx = 0
    /\ acc = Ok(NoRover)
    /\ res = Ok(NoRover)
    /\ rovers = <<>>
    /\ commands = <<>>
    /\ with_rover = {}
    /\ result = <<>>

PathFrame == UNCHANGED <<op, obstacles, start, target, sequence, idx, acc, res,
                         rovers, commands, with_rover, result>>

\* pop_front gives a rover at the target: its path is returned.
Found ==
    /\ op = "get_directions" /\ pc = "loop" /\ q # <<>>
    /\ AtTarget(Head(q)[1], target)
    /\ directions' = PathString(Head(q)[2])
    /\ q' = Tail(q)
    /\ pc' = "done"
    /\ UNCHANGED visited
    /\ PathFrame

\* The loop had it pushed the neighbours whatever visited.insert returns.
Expand_unguarded ==
    /\ op = "get_directions" /\ pc = "loop" /\ q # <<>>
    /\ ~AtTarget(Head(q)[1], target)
    /\ visited' = visited \cup {Head(q)[1]}
    /\ q' = PushBackAll(Tail(q), Neighbours(Head(q)[1], Head(q)[2], obstacles))
    /\ UNCHANGED <<pc, directions>>
    /\ PathFrame

\* pop_front gives a rover that visited.insert accepts: it is expanded.
Expand ==
    /\ op = "get_directions" /\ pc = "loop" /\ q # <<>>
    /\ ~AtTarget(Head(q)[1], target)
    /\ Head(q)[1] \notin visited
    /\ visited' = visited \cup {Head(q)[1]}
    /\ q' = PushBackAll(Tail(q), Neighbours(Head(q)[1], Head(q)[2], obstacles))
    /\ UNCHANGED <<pc, directions>>
    /\ PathFrame

\* pop_front gives a rover that visited.insert rejects: it is dropped.
Drop ==
    /\ op = "get_directions" /\ pc = "loop" /\ q # <<>>
    /\ ~AtTarget(Head(q)[1], target)
    /\ Head(q)[1] \in visited
    /\ q' = Tail(q)
    /\ UNCHANGED <<pc, directions, visited>>
    /\ PathFrame

\* pop_front gives None: the loop ends and the empty String is returned.
Exhausted ==
    /\ op = "get_directions" /\ pc = "loop" /\ q = <<>>
    /\ directions' = NotFound
    /\ pc' = "done"
    /\ UNCHANGED <<q, visited>>
    /\ PathFrame

PathNext == Found \/ Expand \/ Drop \/ Exhausted

SpecPath == PathInit /\ [][PathNext]_vars

\* The while loop keeps running until it returns.
FairSpecPath == SpecPath /\ WF_vars(PathNext)

----------------------------------------------------------------------------
(* What get_directions is measured against: the rover states that command  *)
(* sequences reach under process_sequence.                                 *)

\* The Ok results of one more command applied to the rovers of S.
StepImage(S, obs) ==
    {a.rover : a \in {x \in {fold_step(r, r, c, obs) : r \in S, c \in Cmds} : x.ok}}

\* The Ok results of process_sequence over the command sequences of length k
\* applied to the rovers of S.
RECURSIVE After(_, _, _)
After(S, k, obs) == IF k = 0 THEN S ELSE After(StepImage(S, obs), k - 1, obs)

\* The rover states some command sequence reaches from S.
RECURSIVE Closure(_, _)
Closure(S, obs) ==
    LET N == S \cup StepImage(S, obs)
    IN  IF N = S THEN S ELSE Closure(N, obs)

Positions(S) == {r.position : r \in S}

TargetReachable == target \in Positions(Closure({start}, obstacles))

PathDone == op = "get_directions" /\ pc = "done"

\* L < R < F < B, the order in which the neighbours are pushed.
Rank(c) == CASE c = "L" -> 0 [] c = "R" -> 1 [] c = "F" -> 2 [] c = "B" -> 3

\* Some successful command sequence of length Len(p), ending on tgt, agrees
\* with p before index i and has a smaller command than p at index i.
SmallerAt(p, i, tgt, obs) ==
    LET before == process_sequence(start, SubSeq(p, 1, i - 1), obs)
    IN  \E c \in Cmds :
            /\ Rank(c) < Rank(p[i])
            /\ before.ok
            /\ LET a == fold_step(start, before.rover, c, obs)
               IN  a.ok /\ tgt \in Positions(After({a.rover}, Len(p) - i, obs))

\* C1: path round trip.  For a target that is reachable from start, the
\* returned path holds only F/B/L/R, process_sequence applies it from start
\* with Ok, and the resulting rover stands on the target.
C1_RoundTrip ==
    (PathDone /\ TargetReachable) =>
        /\ \A i \in 1 .. Len(directions) : directions[i] \in Cmds
        /\ process_sequence(start, directions, obstacles).ok
        /\ process_sequence(start, directions, obstacles).rover.position = target

\* The search went around an obstacle: LBLB from (0,0) North to (1,1).
C1_Witness ==
    /\ PathDone
    /\ start = Rover(<<0, 0>>, "North") /\ target = <<1, 1>>
    /\ obstacles = {<<0, 1>>} \cup Wall
    /\ directions = <<"L", "B", "L", "B">>

\* C2: the returned path has minimum length.  For a reachable target no
\* command sequence shorter than the returned path is applied successfully
\* by process_sequence from start and ends on the target.
C2_Minimal ==
    (PathDone /\ TargetReachable) =>
        \A k \in 0 .. Len(directions) - 1 :
            target \notin Positions(After({start}, k, obstacles))

\* A returned path of four commands, with a longer successful sequence to
\* the same target.
C2_Witness ==
    /\ PathDone /\ TargetReachable
    /\ Len(directions) = 4
    /\ target \in Positions(After({start}, 5, obstacles))

\* C3: tie-break.  The returned path has the minimum length, and no
\* successful sequence of that length to the target is smaller in the
\* order L < R < F < B at the first index where it differs from the path.
C3_LexSmallest ==
    (PathDone /\ TargetReachable) =>
        /\ target \in Positions(After({start}, Len(directions), obstacles))
        /\ \A k \in 0 .. Len(directions) - 1 :
               target \notin Positions(After({start}, k, obstacles))
        /\ \A i \in 1 .. Len(directions) :
               ~SmallerAt(directions, i, target, obstacles)

\* LB is returned although RF has the same length and the same end, with
\* entries of already visited rovers in the queue.
C3_Witness ==
    /\ PathDone
    /\ start = Rover(<<0, 0>>, "North") /\ target = <<1, 0>>
    /\ obstacles = Wall
    /\ directions = <<"L", "B">>
    /\ process_sequence(start, <<"R", "F">>, obstacles)
           = Ok(Rover(<<1, 0>>, "East"))
    /\ \E i \in 1 .. Len(q) : q[i][1] \in visited

\* C4: an unreachable target.  When no rover state reachable from start
\* stands on the target, the search ends with its queue empty and returns
\* the empty string.
C4_UnreachableTerminates ==
    (op = "get_directions" /\ pc = "loop" /\ visited = {} /\ ~TargetReachable)
        ~> (PathDone /\ q = <<>> /\ directions = <<>>)

\* The target is a free cell closed in by obstacles, and the search has
\* expanded states before it gave up.
C4_Witness ==
    /\ PathDone /\ ~TargetReachable
    /\ target \notin obstacles
    /\ visited # {}
    /\ q = <<>> /\ directions = <<>>

\* C5, as claimed: the empty string is returned exactly for the unreachable
\* targets.
C5_EmptyIffUnreachable ==
    PathDone => (directions = <<>> <=> ~TargetReachable)

\* C5, amended: the empty string is returned exactly when the target is
\* unreachable or the start rover already stands on it.
C5_EmptyIffUnreachableOrAtStart ==
    PathDone => (directions = <<>> <=> (~TargetReachable \/ start.position = target))

\* The start rover stands on the target: reachable, and the empty string.
C5_Witness ==
    /\ PathDone /\ TargetReachable
    /\ start.position = target
    /\ directions = <<>>

----------------------------------------------------------------------------
(* lib.rs: process_sequence, one fold step at a time                       *)

\* The strings of at most MaxSeqLen chars.
Strings == UNION {[1 .. n -> Chars] : n \in 0 .. MaxSeqLen}

\* No obstacle, or one obstacle on a cell of the arena.  There is no wall:
\* the grid is unbounded and the rover may leave the arena.
FewObstacles == {{}} \cup {{c} : c \in Cells}

SeqInit ==
    /\ op = "process_sequence"
    /\ pc = "loop"
    /\ start \in Rovers
    /\ obstacles \in FewObstacles
    /\ sequence \in Strings
    /\ idx = 0
    /\ acc = Ok(start)
    /\ res = Ok(NoRover)
    /\ target = <<0, 0>>
    /\ q = <<>>
    /\ visited = {}
    /\ directions = <<>>
    /\ rovers = <<>>
    /\ commands = <<>>
    /\ with_rover = {}
    /\ result = <<>>

SeqFrame == UNCHANGED <<op, obstacles, start, sequence, target, q, visited,
                        directions, rovers, commands, with_rover, result>>

\* try_fold takes the next char and applies the closure to it.
FoldChar ==
    /\ op = "process_sequence" /\ pc = "loop"
    /\ acc.ok /\ idx < Len(sequence)
    /\ acc' = fold_step(start, acc.rover, sequence[idx + 1], obstacles)
    /\ idx' = idx + 1
    /\ UNCHANGED <<pc, res>>
    /\ SeqFrame

\* The chars have run out: try_fold returns the accumulator, an Ok.
ReturnOk ==
    /\ op = "process_sequence" /\ pc = "loop"
    /\ acc.ok /\ idx = Len(sequence)
    /\ res' = acc
    /\ pc' = "done"
    /\ UNCHANGED <<idx, acc>>
    /\ SeqFrame

\* The closure has returned an Err: try_fold stops there and returns it.
ReturnErr ==
    /\ op = "process_sequence" /\ pc = "loop"
    /\ ~acc.ok
    /\ res' = acc
    /\ pc' = "done"
    /\ UNCHANGED <<idx, acc>>
    /\ SeqFrame

SeqNext == FoldChar \/ ReturnOk \/ ReturnErr

SpecSeq == SeqInit /\ [][SeqNext]_vars

----------------------------------------------------------------------------
(* What process_sequence is measured against: the single-step transitions  *)
(* applied one after the other.                                            *)

SeqDone == op = "process_sequence" /\ pc = "done"

\* The rover after one command, by the single-step transition of that name.
Transition(r, c, obs) ==
    CASE c = "F" -> forward(r, obs).rover
      [] c = "B" -> backward(r, obs).rover
      [] c = "L" -> turn_left(r)
      [] c = "R" -> turn_right(r)

\* Command c is a move that the single-step transition refuses for rover r.
Blocked(r, c, obs) ==
    \/ c = "F" /\ ~forward(r, obs).ok
    \/ c = "B" /\ ~backward(r, obs).ok

\* The left-to-right fold of the transitions over the commands of s.
RECURSIVE Walk(_, _, _)
Walk(r, s, obs) ==
    IF s = <<>> THEN r ELSE Walk(Transition(r, Head(s), obs), Tail(s), obs)

\* The first k chars of the input are commands, none of them a blocked move.
CleanPrefix(k) ==
    \A j \in 1 .. k :
        /\ sequence[j] \in Cmds
        /\ ~Blocked(Walk(start, SubSeq(sequence, 1, j - 1), obstacles),
                    sequence[j], obstacles)

\* C6: a blocked move.  When the first k-1 chars are commands that all
\* succeed and char k is an F or B whose candidate cell is an obstacle, the
\* result is Err of the rover reached by the first k-1 commands, and no
\* char after the k-th is taken.
C6_BlockedKeepsProgress ==
    SeqDone =>
        \A k \in 1 .. Len(sequence) :
            (/\ CleanPrefix(k - 1)
             /\ Blocked(Walk(start, SubSeq(sequence, 1, k - 1), obstacles),
                        sequence[k], obstacles))
            => /\ res = Err(Walk(start, SubSeq(sequence, 1, k - 1), obstacles))
               /\ idx = k

\* Forward, a right turn, then a forward into the obstacle at (1,1): the
\* rover comes back with the move and the turn kept.
C6_Witness ==
    /\ SeqDone
    /\ start = Rover(<<0, 0>>, "North") /\ obstacles = {<<1, 1>>}
    /\ sequence = <<"F", "R", "F">>
    /\ res = Err(Rover(<<0, 1>>, "East"))

\* C7, as claimed: every string that holds a char outside F/B/L/R fails
\* and returns the rover the sequence started from.
C7_InvalidCharReturnsStart ==
    (SeqDone /\ \E i \in 1 .. Len(sequence) : sequence[i] \notin Cmds)
        => res = Err(start)

\* C8: an unrecognized char.  When the first k-1 chars are commands that
\* all succeed and char k is no command, the result is Err of the rover the
\* sequence started from, and no char after the k-th is taken.
C8_InvalidDiscardsProgress ==
    SeqDone =>
        \A k \in 1 .. Len(sequence) :
            (CleanPrefix(k - 1) /\ sequence[k] \notin Cmds)
            => res = Err(start) /\ idx = k

\* FFX without obstacles: the two moves are lost.
C8_Witness ==
    /\ SeqDone
    /\ start = Rover(<<0, 0>>, "North") /\ obstacles = {}
    /\ sequence = <<"F", "F", "X">>
    /\ Walk(start, <<"F", "F">>, obstacles) = Rover(<<0, 2>>, "North")
    /\ res = Err(start)

\* C9: a clean sequence.  When every char is a command and no move is
\* blocked, the result is Ok of the fold of the transitions; the empty
\* string gives Ok of the start rover.
C9_CleanSequenceFolds ==
    (SeqDone /\ CleanPrefix(Len(sequence)))
        => /\ res = Ok(Walk(start, sequence, obstacles))
           /\ (sequence = <<>> => res = Ok(start))

\* Three commands that move and turn the rover, next to an obstacle.
C9_Witness ==
    /\ SeqDone
    /\ start = Rover(<<0, 0>>, "North") /\ obstacles = {<<1, 0>>}
    /\ sequence = <<"F", "R", "F">>
    /\ res = Ok(Rover(<<1, 1>>, "East"))

----------------------------------------------------------------------------
(* lib.rs: move_all, one zipped (rover, command) pair at a time            *)

\* The rovers of a fleet stand on a lane of MaxRovers + 1 cells along the x
\* axis and face along the lane, where they can meet; two of them may stand
\* on the same cell.  A move may take them off the lane, a turn makes them
\* face across it.
Lane == (0 .. MaxRovers) \X {0}

AlongLane == {"East", "West"}

LaneRovers == {Rover(p, d) : p \in Lane, d \in AlongLane}

\* A fleet of MaxRovers + 1 rovers has a rover that is given no command.
Fleets == UNION {[1 .. n -> LaneRovers] : n \in 0 .. MaxRovers + 1}

\* No obstacle, or one obstacle on a cell of the lane.
LaneObstacles == {{}} \cup {{c} : c \in Lane}

\* The occupancy set had the positions of the rovers been left out.
Occupancy_obstacles_only(rs, obs) == obs

\* with_rover before the loop: the obstacles and every rover's position.
Occupancy(rs, obs) == obs \cup {rs[i].position : i \in 1 .. Len(rs)}

\* The match had its last arm sent every other char forward.
move_one_default_forward(r, c, occupied) ==
    CASE c = "F" -> forward(r, occupied).rover
      [] c = "B" -> backward(r, occupied).rover
      [] c = "L" -> turn_left(r)
      [] c = "R" -> turn_right(r)
      [] OTHER   -> forward(r, occupied).rover

\* The match on the command: a blocked move gives the rover back unchanged.
move_one(r, c, occupied) ==
    CASE c = "F" -> forward(r, occupied).rover
      [] c = "B" -> backward(r, occupied).rover
      [] c = "L" -> turn_left(r)
      [] c = "R" -> turn_right(r)
      [] OTHER   -> r

FleetInit ==
    /\ op = "move_all"
    /\ pc = "loop"
    /\ rovers \in Fleets
    /\ obstacles \in LaneObstacles
    /\ commands = <<>>
    /\ with_rover = Occupancy(rovers, obstacles)
    /\ result = <<>>
    /\ start = NoRover
    /\ target = <<0, 0>>
    /\ q = <<>>
    /\ visited = {}
    /\ directions = <<>>
    /\ sequence = <<>>
    /\ idx = 0
    /\ acc = Ok(NoRover)
    /\ res = Ok(NoRover)

FleetFrame == UNCHANGED <<op, obstacles, rovers, start, target, q, visited,
                          directions, sequence, idx, acc, res>>

\* The loop body had with_rover.insert(rover.position) been left out.
MoveOne_no_insert ==
    /\ op = "move_all" /\ pc = "loop"
    /\ Len(result) < Len(rovers)
    /\ Len(commands) < MaxRovers
    /\ \E c \in Chars :
        LET r == rovers[Len(result) + 1]
            rover == move_one(r, c, with_rover \ {r.position})
        IN  /\ commands' = Append(commands, c)
            /\ with_rover' = with_rover \ {r.position}
            /\ result' = Append(result, rover)
    /\ UNCHANGED pc
    /\ FleetFrame

\* The zip yields the next rover and the next command c: the rover leaves
\* the occupancy set, obeys c, and its position is put back.
MoveOne ==
    /\ op = "move_all" /\ pc = "loop"
    /\ Len(result) < Len(rovers)
    /\ Len(commands) < MaxRovers
    /\ \E c \in Chars :
        LET r == rovers[Len(result) + 1]
            rover == move_one(r, c, with_rover \ {r.position})
        IN  /\ commands' = Append(commands, c)
            /\ with_rover' = (with_rover \ {r.position}) \cup {rover.position}
            /\ result' = Append(result, rover)
    /\ UNCHANGED pc
    /\ FleetFrame

\* An F that is still in the command slice when the rovers have run out.
Unread == <<"F">>

\* The zip ends because the rovers have run out: it asks the rovers first
\* and does not look at the commands again.
RoversExhausted ==
    /\ op = "move_all" /\ pc = "loop"
    /\ Len(result) = Len(rovers)
    /\ pc' = "done"
    /\ UNCHANGED <<commands, with_rover, result>>
    /\ FleetFrame

\* The zip ends because the commands have run out before the rovers.
CommandsExhausted ==
    /\ op = "move_all" /\ pc = "loop"
    /\ Len(result) < Len(rovers)
    /\ pc' = "done"
    /\ UNCHANGED <<commands, with_rover, result>>
    /\ FleetFrame

\* The zip ends because the rovers have run out, with a command to spare:
\* the command is never read.
CommandsLeftOver ==
    /\ op = "move_all" /\ pc = "loop"
    /\ Len(result) = Len(rovers)
    /\ commands' = commands \o Unread
    /\ pc' = "done"
    /\ UNCHANGED <<with_rover, result>>
    /\ FleetFrame

FleetNext == MoveOne \/ RoversExhausted \/ CommandsExhausted \/ CommandsLeftOver

SpecFleet == FleetInit /\ [][FleetNext]_vars

----------------------------------------------------------------------------
(* What move_all is measured against.                                      *)

FleetDone == op = "move_all" /\ pc = "done"

\* The rovers start on pairwise distinct cells, none of them an obstacle.
DistinctFreeStarts ==
    /\ \A i, j \in 1 .. Len(rovers) :
           i # j => rovers[i].position # rovers[j].position
    /\ \A i \in 1 .. Len(rovers) : rovers[i].position \notin obstacles

\* The cell rover r asks for with a move command c.
Candidate(r, c) ==
    IF c = "F"
        THEN Vec2D_add(r.position, dir_to_vec(r.direction))
        ELSE Vec2D_sub(r.position, dir_to_vec(r.direction))

\* The cell is an obstacle, or the new position of a rover processed
\* before i, or the starting position of a rover processed after i.
TakenFor(i, cell) ==
    \/ cell \in obstacles
    \/ \E j \in 1 .. i - 1 : result[j].position = cell
    \/ \E j \in i + 1 .. Len(rovers) : rovers[j].position = cell

\* C10: the blocking rule.  In a fleet with distinct free starting cells
\* and one command per rover, a rover commanded F or B keeps its position
\* exactly when its candidate cell is taken, and else moves to it.
C10_BlockingRule ==
    (FleetDone /\ Len(commands) = Len(rovers) /\ DistinctFreeStarts) =>
        \A i \in 1 .. Len(rovers) :
            commands[i] \in {"F", "B"} =>
                result[i].position =
                    IF TakenFor(i, Candidate(rovers[i], commands[i]))
                        THEN rovers[i].position
                        ELSE Candidate(rovers[i], commands[i])

\* Two rovers head for the same free cell: the first gets it and the second
\* stays; the first would have stayed had it been the second.
C10_Witness ==
    /\ FleetDone
    /\ obstacles = {}
    /\ rovers = <<Rover(<<0, 0>>, "East"), Rover(<<2, 0>>, "West")>>
    /\ commands = <<"F", "F">>
    /\ result = <<Rover(<<1, 0>>, "East"), Rover(<<2, 0>>, "West")>>

\* The output positions are pairwise distinct and none is an obstacle.
DistinctFreeEnds ==
    /\ \A i, j \in 1 .. Len(result) :
           i # j => result[i].position # result[j].position
    /\ \A i \in 1 .. Len(result) : result[i].position \notin obstacles

\* Two rovers have taken each other's starting cell.
Exchanged ==
    \E i, j \in 1 .. Len(result) :
        /\ i # j
        /\ result[i].position = rovers[j].position
        /\ result[j].position = rovers[i].position

\* C11: collision freedom.  From distinct free starting cells and one
\* command per rover, the rovers end on distinct free cells (so the next
\* step starts from distinct free cells again), and no two rovers exchange
\* their cells.
C11_CollisionFree ==
    (FleetDone /\ Len(commands) = Len(rovers) /\ DistinctFreeStarts) =>
        /\ Len(result) = Len(rovers)
        /\ DistinctFreeEnds
        /\ ~Exchanged

\* Two neighbours drive at each other: both stay where they are.
C11_Witness ==
    /\ FleetDone
    /\ obstacles = {<<2, 0>>}
    /\ rovers = <<Rover(<<0, 0>>, "East"), Rover(<<1, 0>>, "West")>>
    /\ commands = <<"F", "F">>
    /\ result = rovers

\* C12, as claimed: whatever the starting positions, a rover that has
\* changed its position does not end on an obstacle.
C12_NeverMovesOntoObstacle ==
    FleetDone =>
        \A i \in 1 .. Len(result) :
            result[i].position # rovers[i].position
                => result[i].position \notin obstacles

\* Right turns go North, East, South, West, North; left turns the other way.
RightOf(d) ==
    CASE d = "North" -> "East" [] d = "East" -> "South"
      [] d = "South" -> "West" [] d = "West" -> "North"

LeftOf(d) ==
    CASE d = "North" -> "West" [] d = "West" -> "South"
      [] d = "South" -> "East" [] d = "East" -> "North"

\* Rover b is rover a with the one command c applied: a turn on the spot, a
\* move of zero or one step in the same direction, or nothing at all.
EffectOf(a, c, b) ==
    CASE c = "L" -> b = Rover(a.position, LeftOf(a.direction))
      [] c = "R" -> b = Rover(a.position, RightOf(a.direction))
      [] c \in {"F", "B"} ->
            /\ b.direction = a.direction
            /\ b.position \in {a.position, Candidate(a, c)}
      [] OTHER -> b = a

\* C16: the per-rover effect.  With one command per rover the output has
\* one rover per input rover, in input order, and output i is input i with
\* command i applied; a char that is no command leaves the rover as it was
\* and the call still returns.
C16_PerRoverEffect ==
    (FleetDone /\ Len(commands) = Len(rovers)) =>
        /\ Len(result) = Len(rovers)
        /\ \A i \in 1 .. Len(rovers) : EffectOf(rovers[i], commands[i], result[i])

\* A rover turns on a cell that the other rover shares with it, and the
\* other rover is given a char that is no command.
C16_Witness ==
    /\ FleetDone
    /\ rovers = <<Rover(<<1, 0>>, "West"), Rover(<<1, 0>>, "East")>>
    /\ commands = <<"L", "X">>
    /\ result = <<Rover(<<1, 0>>, "South"), Rover(<<1, 0>>, "East")>>

Min(a, b) == IF a <= b THEN a ELSE b

\* Some rover that is given no command starts on the cell.
HeldByIdle(cell) ==
    \E j \in Len(result) + 1 .. Len(rovers) : rovers[j].position = cell

\* C20, as claimed: with rovers and commands of different lengths the call
\* returns the results for the first min(len, len) rovers, in input order,
\* and a move onto the starting cell of a rover without a command is
\* refused.
C20_TruncatesAndIdleRoversBlock ==
    (FleetDone /\ Len(commands) # Len(rovers)) =>
        /\ Len(result) = Min(Len(rovers), Len(commands))
        /\ \A i \in 1 .. Len(result) :
            /\ EffectOf(rovers[i], commands[i], result[i])
            /\ (commands[i] \in {"F", "B"}
                    /\ HeldByIdle(Candidate(rovers[i], commands[i])))
                => result[i].position = rovers[i].position

\* The same for fleets whose rovers start on pairwise distinct cells.
C20_Distinct ==
    (\A i, j \in 1 .. Len(rovers) :
        i # j => rovers[i].position # rovers[j].position)
    => C20_TruncatesAndIdleRoversBlock

----------------------------------------------------------------------------
(* The single-step transitions, as process_sequence applies them           *)

\* The unit vector of a facing, by the table of the specification.
UnitVector(d) ==
    CASE d = "North" -> <<0, 1>>
      [] d = "East"  -> <<1, 0>>
      [] d = "South" -> <<0, -1>>
      [] d = "West"  -> <<-1, 0>>

\* The cell one unit vector ahead of rover r for F, one behind it for B.
CandidateCell(r, c) ==
    IF c = "F"
        THEN <<r.position[1] + UnitVector(r.direction)[1],
               r.position[2] + UnitVector(r.direction)[2]>>
        ELSE <<r.position[1] - UnitVector(r.direction)[1],
               r.position[2] - UnitVector(r.direction)[2]>>

\* One step of the fold: the closure is applied to sequence[idx + 1].
FoldStep == op = "process_sequence" /\ idx' = idx + 1

\* C13: single-step moves.  A forward or backward move fails with the
\* unchanged rover exactly when the candidate cell (the position plus or
\* minus the unit vector of the facing) is an obstacle, and otherwise
\* succeeds with a rover on the candidate cell that faces as before; a
\* turn always succeeds and leaves the position as it was.
C13_SingleStepMoves ==
    [][FoldStep =>
        LET r == acc.rover
            c == sequence[idx + 1]
        IN  /\ c \in {"F", "B"} =>
                acc' = IF CandidateCell(r, c) \in obstacles
                           THEN Err(r)
                           ELSE Ok(Rover(CandidateCell(r, c), r.direction))
            /\ c \in {"L", "R"} =>
                /\ acc'.ok
                /\ acc'.rover.position = r.position]_vars

\* A rover facing North has been refused the move onto the obstacle (0, 1)
\* and has stayed as it was.
C13_Witness ==
    /\ op = "process_sequence" /\ idx = 1
    /\ start = Rover(<<0, 0>>, "North")
    /\ obstacles = {<<0, 1>>}
    /\ sequence[1] = "F"
    /\ acc = Err(start)

\* The first two chars are a move and the opposite move, and the two cells
\* they involve are free.
ThereAndBack ==
    /\ Len(sequence) >= 2
    /\ <<sequence[1], sequence[2]>> \in {<<"F", "B">>, <<"B", "F">>}
    /\ start.position \notin obstacles
    /\ Candidate(start, sequence[1]) \notin obstacles

\* C14: forward followed by backward, and backward followed by forward,
\* both succeed when the two cells involved are free, and give back the
\* original rover, position and direction.
C14_MoveThereAndBack ==
    (op = "process_sequence" /\ ThereAndBack) =>
        /\ idx = 1 =>
            acc = Ok(Rover(Candidate(start, sequence[1]), start.direction))
        /\ idx = 2 => acc = Ok(start)

\* A rover has backed off the arena and come forward again, next to an
\* obstacle.
C14_Witness ==
    /\ op = "process_sequence" /\ idx = 2
    /\ start = Rover(<<0, 0>>, "North")
    /\ obstacles = {<<1, 0>>}
    /\ sequence[1] = "B" /\ sequence[2] = "F"
    /\ acc = Ok(start)

\* The first k chars of the input are all the char c.
Repeats(c, k) == Len(sequence) >= k /\ \A j \in 1 .. k : sequence[j] = c

\* C15: rotation is a 4-cycle.  Four right turns, and four left turns, of
\* any rover give the rover back, and so does a left turn after a right
\* turn and a right turn after a left turn.
C15_RotationCycle ==
    op = "process_sequence" =>
        LET r == acc.rover
        IN  /\ turn_right(turn_right(turn_right(turn_right(r)))) = r
            /\ turn_left(turn_left(turn_left(turn_left(r)))) = r
            /\ turn_left(turn_right(r)) = r
            /\ turn_right(turn_left(r)) = r
            /\ (idx = 2 /\ Len(sequence) >= 2
                    /\ <<sequence[1], sequence[2]>>
                          \in {<<"L", "R">>, <<"R", "L">>})
                => acc = Ok(start)
            /\ (idx = 3 /\ Repeats("R", 3)) => turn_right(r) = start
            /\ (idx = 3 /\ Repeats("L", 3)) => turn_left(r) = start

\* A rover that faced North has turned right three times and faces West:
\* the fourth right turn is the one that closes the cycle.
C15_Witness ==
    /\ op = "process_sequence" /\ idx = 3
    /\ Repeats("R", 3)
    /\ start = Rover(<<1, 1>>, "North")
    /\ acc = Ok(Rover(<<1, 1>>, "West"))

\* C18: a rover that starts off the obstacles stays off them under
\* process_sequence.  After every applied command, and in the Ok or Err
\* that is returned, the rover's position is no obstacle.
C18_StaysOffObstacles ==
    (op = "process_sequence" /\ start.position \notin obstacles) =>
        /\ acc.rover.position \notin obstacles
        /\ SeqDone => res.rover.position \notin obstacles

\* A rover has moved, turned towards the obstacle and been refused the
\* move onto it.
C18_Witness ==
    /\ SeqDone
    /\ start = Rover(<<0, 0>>, "East")
    /\ obstacles = {<<1, 1>>}
    /\ sequence = <<"F", "L", "F">>
    /\ res = Err(Rover(<<1, 0>>, "North"))

----------------------------------------------------------------------------
(* The search loop of get_directions                                       *)

\* The step pushes entries: after pop_front the queue is longer than its
\* tail.
Enqueues == Len(q') > Len(q) - 1

\* C17: every rover state is expanded at most once per call.  The visited
\* set only grows; a state that is popped when it is in the visited set
\* pushes nothing; a state whose neighbours are pushed was not in the
\* visited set before and is in it from then on, the start state as any
\* other.
C17_ExpandedAtMostOnce ==
    [][(op = "get_directions" /\ q # <<>>) =>
        /\ visited \subseteq visited'
        /\ Head(q)[1] \in visited =>
            /\ q' = Tail(q)
            /\ visited' = visited
        /\ Enqueues =>
            /\ Head(q)[1] \notin visited
            /\ Head(q)[1] \in visited']_vars

\* A cycle of commands has led back to the start state, which has been
\* expanded before: it is at the front of the queue again.
C17_Witness ==
    /\ op = "get_directions" /\ pc = "loop" /\ q # <<>>
    /\ Head(q)[1] = start
    /\ Head(q)[2] # <<>>
    /\ start \in visited
    /\ ~AtTarget(start, target)

\* C19: the invariant of the search queue.  Every queued entry holds the
\* rover that process_sequence returns as Ok for the entry's path, read
\* from the first command to the last, from the start rover under the same
\* obstacles; the path lengths do not decrease from the front of the queue
\* to its back and differ by at most one.
C19_QueueInvariant ==
    op = "get_directions" =>
        /\ \A i \in 1 .. Len(q) :
            process_sequence(start, PathString(q[i][2]), obstacles)
                = Ok(q[i][1])
        /\ \A i \in 1 .. Len(q) - 1 : Len(q[i][2]) <= Len(q[i + 1][2])
        /\ q # <<>> => Len(q[Len(q)][2]) <= Len(q[1][2]) + 1

\* The queue holds paths of one and of two commands, among them the path
\* "LF", kept as the list F, L.
C19_Witness ==
    /\ op = "get_directions" /\ pc = "loop" /\ q # <<>>
    /\ Len(Head(q)[2]) = 1
    /\ \E i \in 1 .. Len(q) : q[i][2] = <<"F", "L">>

====
